---- MODULE Spec2Model ----
(***************************************************************************)
(* A model of the micrograd engine of src/src/main.rs: the Value graph,    *)
(* the constructors add / mul / pow / exp / tanh, the backward pass        *)
(* (build_topo, the seed, the reversed loop over _backward), the Neuron /  *)
(* Layer / MLP calls and the training loop of main.                        *)
(*                                                                         *)
(* A Value is a handle Rc<RefCell<_Value>>: it is modelled as an index     *)
(* into the arena `nodes`, so two handles of one node are one index and    *)
(* every clone observes the same grad.  f64 is modelled by the integers;   *)
(* an operation whose f64 result is not an integer (tanh, exp, the 0.1     *)
(* learning rate) is rounded to the nearest integer.                       *)
(***************************************************************************)
EXTENDS Integers, Sequences, FiniteSets

VARIABLES
  nodes,    \* the arena: nodes[i] is the _Value behind handle i
  pc,       \* where the program is: "idle", or "backward" inside the loop of backward()
  topo,     \* backward(): the part of the reversed order the loop has still to walk
  roots,    \* the roots backward() was called on, oldest first
  order,    \* backward(): the order build_topo returned for the running pass
  applied,  \* backward(): the nodes whose _backward has run in the running pass
  pre,      \* backward(): the arena as it was when the running pass was called
  net,      \* the MLP: its layers, each the Neurons [w, b] it owns
  call,     \* the last Neuron / MLP call: its inputs, the last layer's outputs, what it returned
  train     \* main's training loop: the data set, the iteration, the loss node

netVars == <<net, call, train>>

vars == <<nodes, pc, topo, roots, order, applied, pre, net, call, train>>

\* ---------------------------------------------------------------- bounds
MaxNodes == 3
MaxPasses == 2
MaxExp == 2
MaxGraph == 4
MaxWeights == 2
MaxIn == 2
MaxOut == 2
MaxLayers == 2
MaxFeatures == 1
MaxDepth == 1
MaxSamples == 1
MaxIters == 3

LeafVals == {-1, 0, 2}

\* ------------------------------------------------------- scalar functions
\* f64::tanh, rounded to the nearest integer (tanh 0 = 0, |tanh x| > 0.76
\* for |x| >= 1).
tanh(x) == IF x = 0 THEN 0 ELSE IF x > 0 THEN 1 ELSE -1

\* f64::exp, rounded to the nearest integer, on the arguments ExpDom.
ExpDom == -2 .. 2
exp(x) == CASE x <= -1 -> 0
            [] x = 0 -> 1
            [] x = 1 -> 3
            [] OTHER -> 7

\* f64::powf for an integer exponent e >= 0.
RECURSIVE powf(_, _)
powf(x, e) == IF e <= 0 THEN 1 ELSE x * powf(x, e - 1)

\* ------------------------------------------------------------ the arena
NoPrev == <<>>

new_ext(data, children, op) ==
  [data |-> data, prev |-> children, op |-> op, grad |-> 0]

new(data) == new_ext(data, NoPrev, "None")

update_grad(ns, v, g) == [ns EXCEPT ![v].grad = g]

update_data(ns, v, d) == [ns EXCEPT ![v].data = d]

\* Each constructor returns the arena with the new node appended: the new
\* node's handle is Len of the result.
v_tanh(ns, a) == Append(ns, new_ext(tanh(ns[a].data), <<a, a>>, "Tanh"))

v_exp(ns, a) == Append(ns, new_ext(exp(ns[a].data), <<a, a>>, "Exp"))

v_add(ns, a, b) == Append(ns, new_ext(ns[a].data + ns[b].data, <<a, b>>, "Add"))

v_mul(ns, a, b) == Append(ns, new_ext(ns[a].data * ns[b].data, <<a, b>>, "Mul"))

v_pow(ns, a, b) ==
  Append(ns, new_ext(powf(ns[a].data, ns[b].data), <<a, b>>, "Pow"))

v_neg(ns, a) ==
  LET n1 == Append(ns, new(-1)) IN v_mul(n1, a, Len(n1))

v_sub(ns, a, b) ==
  LET n1 == v_neg(ns, b) IN v_add(n1, a, Len(n1))

\* #[derive(PartialEq)] on Value and _Value: Rc and RefCell compare the
\* values they hold, so two handles are equal when data, _prev (compared
\* recursively), _op and grad are equal.
RECURSIVE eq(_, _, _)
eq(ns, x, y) ==
  /\ ns[x].data = ns[y].data
  /\ IF ns[x].prev = NoPrev \/ ns[y].prev = NoPrev
       THEN ns[x].prev = ns[y].prev
       ELSE /\ eq(ns, ns[x].prev[1], ns[y].prev[1])
            /\ eq(ns, ns[x].prev[2], ns[y].prev[2])
  /\ ns[x].op = ns[y].op
  /\ ns[x].grad = ns[y].grad

\* ------------------------------------------------------------- backward
\* The arms of the match in _backward, for the node v with operands (a, b).
\* Every get_grad / get_data reads the arena as the previous update_grad
\* left it.
backward_Add(ns, v, a, b) ==
  LET n1 == update_grad(ns, a, ns[a].grad + ns[v].grad)
  IN update_grad(n1, b, n1[b].grad + n1[v].grad)

\* The Mul arm with both grads read before either is written.
backward_Mul_stale(ns, v, a, b) ==
  LET ga == ns[a].grad + ns[b].data * ns[v].grad
      gb == ns[b].grad + ns[a].data * ns[v].grad
  IN update_grad(update_grad(ns, a, ga), b, gb)

backward_Mul(ns, v, a, b) ==
  LET n1 == update_grad(ns, a, ns[a].grad + ns[b].data * ns[v].grad)
  IN update_grad(n1, b, n1[b].grad + n1[a].data * n1[v].grad)

backward_Tanh(ns, v, a, b) ==
  LET t == tanh(ns[a].data)
  IN update_grad(ns, a, (1 - powf(t, 2)) * ns[v].grad)

backward_Exp(ns, v, a, b) ==
  update_grad(ns, a, exp(ns[a].data) * ns[v].grad)

\* The Pow arm with a second update, of the exponent, as the Mul arm has.
backward_Pow_exponent(ns, v, a, b) ==
  LET n1 == update_grad(ns, a,
              ns[b].data * powf(ns[a].data, ns[b].data - 1) * ns[v].grad)
  IN update_grad(n1, b, n1[b].grad + n1[a].data * n1[v].grad)

backward_Pow(ns, v, a, b) ==
  update_grad(ns, a,
    ns[b].data * powf(ns[a].data, ns[b].data - 1) * ns[v].grad)

\* Value::_backward: the local rule of one node.
_backward(ns, v) ==
  IF ns[v].prev = NoPrev THEN ns
  ELSE
    LET a == ns[v].prev[1]
        b == ns[v].prev[2]
    IN CASE ns[v].op = "Add" -> backward_Add(ns, v, a, b)
         [] ns[v].op = "Mul" -> backward_Mul(ns, v, a, b)
         [] ns[v].op = "Tanh" -> backward_Tanh(ns, v, a, b)
         [] ns[v].op = "Exp" -> backward_Exp(ns, v, a, b)
         [] ns[v].op = "Pow" -> backward_Pow(ns, v, a, b)
         [] OTHER -> ns

visited_has(ns, visited, v) ==
  \E k \in 1 .. Len(visited) : eq(ns, visited[k], v)

\* build_topo, on the pair st = [topo, visited] it updates in place.
RECURSIVE build_topo(_, _, _)
build_topo(ns, v, st) ==
  IF visited_has(ns, st.visited, v) THEN st
  ELSE
    LET s1 == [st EXCEPT !.visited = Append(@, v)]
        s2 == IF ns[v].prev # NoPrev
                THEN build_topo(ns, ns[v].prev[2],
                                build_topo(ns, ns[v].prev[1], s1))
                ELSE s1
    IN [s2 EXCEPT !.topo = Append(@, v)]

topo_of(ns, r) == build_topo(ns, r, [topo |-> <<>>, visited |-> <<>>]).topo

\* The order left as build_topo returned it.
reverse_none(s) == s

reverse(s) == [k \in 1 .. Len(s) |-> s[Len(s) + 1 - k]]

RECURSIVE run_rules(_, _)
run_rules(ns, t) ==
  IF t = <<>> THEN ns ELSE run_rules(_backward(ns, Head(t)), Tail(t))

\* Value::backward as a function of the arena.
backward(ns, r) ==
  run_rules(update_grad(ns, r, 1), reverse(topo_of(ns, r)))

\* -------------------------------------------------- Neuron, Layer, MLP
Min(x, y) == IF x < y THEN x ELSE y

\* The fold of Neuron::call from pair k on: acc is the last node of the
\* arena, and zip ends with the shorter of w and inputs.
RECURSIVE fold_wx(_, _, _, _)
fold_wx(ns, w, inputs, k) ==
  IF k > Min(Len(w), Len(inputs)) THEN ns
  ELSE LET acc == Len(ns)
           n1 == v_mul(ns, w[k], inputs[k])
       IN fold_wx(v_add(n1, acc, Len(n1)), w, inputs, k + 1)

\* No assertion: the zip gives as many pairs as the shorter sequence has.
arity_any(n, inputs) == TRUE

\* The assert_eq! of Neuron::call.
arity_ok(n, inputs) == Len(n.w) = Len(inputs)

\* Neuron::call past its assertion: the output is the last node.
neuron_call(ns, n, inputs) ==
  LET n1 == fold_wx(Append(ns, new(0)), n.w, inputs, 1)
      n2 == v_add(n1, Len(n1), n.b)
  IN v_tanh(n2, Len(n2))

\* Layer::call from neuron k on, on st = [ns, outs, panicked].
RECURSIVE layer_call(_, _, _, _)
layer_call(st, layer, inputs, k) ==
  IF k > Len(layer) \/ st.panicked THEN st
  ELSE IF ~arity_ok(layer[k], inputs) THEN [st EXCEPT !.panicked = TRUE]
  ELSE LET n1 == neuron_call(st.ns, layer[k], inputs)
       IN layer_call([st EXCEPT !.ns = n1, !.outs = Append(@, Len(n1))],
                     layer, inputs, k + 1)

\* The fold of MLP::call over the layers from layer k on: acc is st.outs.
RECURSIVE fold_layers(_, _, _)
fold_layers(st, layers, k) ==
  IF k > Len(layers) \/ st.panicked THEN st
  ELSE fold_layers(layer_call([st EXCEPT !.outs = <<>>], layers[k], st.outs, 1),
                   layers, k + 1)

RECURSIVE new_inputs(_, _, _)
new_inputs(st, xs, k) ==
  IF k > Len(xs) THEN st
  ELSE new_inputs([st EXCEPT !.ns = Append(@, new(xs[k])),
                             !.outs = Append(@, Len(st.ns) + 1)], xs, k + 1)

\* MLP::call: [ns, outs, panicked, ret], outs the last layer's outputs and
\* ret the nodes handed back, out[0].
mlp_call(ns, layers, xs) ==
  LET s0 == new_inputs([ns |-> ns, outs |-> <<>>, panicked |-> FALSE], xs, 1)
      s1 == fold_layers(s0, layers, 1)
  IN IF s1.panicked \/ s1.outs = <<>>
       THEN [ns |-> s1.ns, outs |-> s1.outs, panicked |-> TRUE, ret |-> <<>>]
       ELSE [ns |-> s1.ns, outs |-> s1.outs, panicked |-> FALSE,
             ret |-> <<s1.outs[1]>>]

\* Neuron::parameters, Layer::parameters, MLP::parameters.
neuron_parameters(n) == Append(n.w, n.b)

RECURSIVE layer_parameters(_, _)
layer_parameters(layer, k) ==
  IF k > Len(layer) THEN <<>>
  ELSE neuron_parameters(layer[k]) \o layer_parameters(layer, k + 1)

RECURSIVE parameters(_, _)
parameters(layers, k) ==
  IF k > Len(layers) THEN <<>>
  ELSE layer_parameters(layers[k], 1) \o parameters(layers, k + 1)

NoCall == [args |-> <<>>, outs |-> <<>>, ret |-> <<>>]

NoTrain == [xs |-> <<>>, ys |-> <<>>, iter |-> 0, loss |-> 0, last |-> <<>>]

\* ------------------------------------------------------------ the engine
root == roots[Len(roots)]

passes == Len(roots)

Init ==
  /\ nodes = <<>>
  /\ pc = "idle"
  /\ topo = <<>>
  /\ roots = <<>>
  /\ order = <<>>
  /\ applied = <<>>
  /\ pre = <<>>
  /\ net = <<>>
  /\ call = NoCall
  /\ train = NoTrain

CanBuild(max) == pc = "idle" /\ Len(nodes) < max

Keep == UNCHANGED <<pc, topo, roots, order, applied, pre, netVars>>

Leaf(max) ==
  /\ CanBuild(max)
  /\ \E d \in LeafVals : nodes' = Append(nodes, new(d))
  /\ Keep

Add(max) ==
  /\ CanBuild(max)
  /\ \E a, b \in 1 .. Len(nodes) : nodes' = v_add(nodes, a, b)
  /\ Keep

Mul(max) ==
  /\ CanBuild(max)
  /\ \E a, b \in 1 .. Len(nodes) : nodes' = v_mul(nodes, a, b)
  /\ Keep

NewLeaf == Leaf(MaxNodes)

OpAdd == Add(MaxNodes)

OpMul == Mul(MaxNodes)

OpPow ==
  /\ CanBuild(MaxNodes)
  /\ \E a, b \in 1 .. Len(nodes) :
       /\ nodes[b].data \in 1 .. MaxExp
       /\ nodes' = v_pow(nodes, a, b)
  /\ Keep

OpTanh ==
  /\ CanBuild(MaxNodes)
  /\ \E a \in 1 .. Len(nodes) : nodes' = v_tanh(nodes, a)
  /\ Keep

OpExp ==
  /\ CanBuild(MaxNodes)
  /\ \E a \in 1 .. Len(nodes) :
       /\ nodes[a].data \in ExpDom
       /\ nodes' = v_exp(nodes, a)
  /\ Keep

\* backward(): build the order, seed the root, reverse.  The call is made on
\* the value computed last, whose operand closure is all the call can reach.
BackwardStart ==
  /\ pc = "idle"
  /\ passes < MaxPasses
  /\ nodes # <<>>
  /\ roots' = Append(roots, Len(nodes))
  /\ pre' = nodes
  /\ order' = topo_of(nodes, Len(nodes))
  /\ nodes' = update_grad(nodes, Len(nodes), 1)
  /\ topo' = reverse(order')
  /\ applied' = <<>>
  /\ pc' = "backward"
  /\ UNCHANGED netVars

\* One iteration of `for node in topo { node._backward() }`.
BackwardStep ==
  /\ pc = "backward"
  /\ topo # <<>>
  /\ nodes' = _backward(nodes, Head(topo))
  /\ applied' = Append(applied, Head(topo))
  /\ topo' = Tail(topo)
  /\ UNCHANGED <<pc, roots, order, pre, netVars>>

\* backward() returns.
BackwardEnd ==
  /\ pc = "backward"
  /\ topo = <<>>
  /\ pc' = "idle"
  /\ UNCHANGED <<nodes, topo, roots, order, applied, pre, netVars>>

Next ==
  \/ NewLeaf
  \/ OpAdd
  \/ OpMul
  \/ OpPow
  \/ OpTanh
  \/ OpExp
  \/ BackwardStart
  \/ BackwardStep
  \/ BackwardEnd

Spec == Init /\ [][Next]_vars

\* Graphs of add and multiply alone.
GraphLeaf == Leaf(MaxGraph)

GraphAdd == Add(MaxGraph)

GraphMul == Mul(MaxGraph)

NextGraph ==
  \/ GraphLeaf
  \/ GraphAdd
  \/ GraphMul
  \/ BackwardStart
  \/ BackwardStep
  \/ BackwardEnd

SpecGraph == Init /\ [][NextGraph]_vars

\* ------------------------------------------------ building a network
\* Neuron::new for the neuron whose nin weights and bias are the leaves
\* base + 1 .. base + nin + 1 of the arena.
neuron_new(base, nin) ==
  [w |-> [i \in 1 .. nin |-> base + i], b |-> base + nin + 1]

layer_new(base, nin, nout) ==
  [k \in 1 .. nout |-> neuron_new(base + (k - 1) * (nin + 1), nin)]

\* MLP::new from layer k of sz = [nin] ++ nouts on.
RECURSIVE mlp_new(_, _, _)
mlp_new(base, sz, k) ==
  IF k >= Len(sz) THEN <<>>
  ELSE <<layer_new(base, sz[k], sz[k + 1])>>
         \o mlp_new(base + (sz[k] + 1) * sz[k + 1], sz, k + 1)

RECURSIVE n_params(_, _)
n_params(sz, k) ==
  IF k >= Len(sz) THEN 0 ELSE (sz[k] + 1) * sz[k + 1] + n_params(sz, k + 1)

\* Uniform::new(-1.0, 1.0), on the integers.
WeightVals == {-1, 0}

InputVals == {-1, 3}

Leaves(n) == [1 .. n -> {new(v) : v \in WeightVals}]

SeqsUpTo(S, n) == UNION {[1 .. k -> S] : k \in 0 .. n}

\* ------------------------------------------------------ one Neuron
InitNeuron ==
  /\ \E nin \in 0 .. MaxWeights :
       /\ net = <<layer_new(0, nin, 1)>>
       /\ nodes \in Leaves(nin + 1)
  /\ pc = "ready"
  /\ topo = <<>>
  /\ roots = <<>>
  /\ order = <<>>
  /\ applied = <<>>
  /\ pre = <<>>
  /\ call = NoCall
  /\ train = NoTrain

EngineIdle == UNCHANGED <<topo, roots, order, applied, pre>>

TheNeuron == net[1][1]

InputNodes == (Len(TheNeuron.w) + 2) .. Len(nodes)

\* The caller makes an input value.
NewInput ==
  /\ pc = "ready"
  /\ Cardinality(InputNodes) <= MaxWeights
  /\ \E d \in InputVals : nodes' = Append(nodes, new(d))
  /\ UNCHANGED <<pc, net, call, train>>
  /\ EngineIdle

\* Neuron::call on a sequence of the caller's values.
NeuronCall ==
  /\ pc = "ready"
  /\ \E inputs \in SeqsUpTo(InputNodes, MaxWeights + 1) :
       IF arity_ok(TheNeuron, inputs)
         THEN /\ nodes' = neuron_call(nodes, TheNeuron, inputs)
              /\ call' = [args |-> inputs, outs |-> <<>>, ret |-> <<Len(nodes')>>]
              /\ pc' = "returned"
         ELSE /\ nodes' = nodes
              /\ call' = [args |-> inputs, outs |-> <<>>, ret |-> <<>>]
              /\ pc' = "panicked"
  /\ UNCHANGED <<net, train>>
  /\ EngineIdle

\* backward() on what a call returned.
CallBackward ==
  /\ pc = "returned"
  /\ nodes' = backward(nodes, call.ret[1])
  /\ pc' = "done"
  /\ UNCHANGED <<net, call, train>>
  /\ EngineIdle

NextNeuron ==
  \/ NewInput
  \/ NeuronCall
  \/ CallBackward

SpecNeuron == InitNeuron /\ [][NextNeuron]_vars

\* -------------------------------------------------------- one MLP
Shapes ==
  {<<nin>> \o nouts : nin \in 1 .. MaxIn,
                      nouts \in SeqsUpTo(1 .. MaxOut, MaxLayers) \ {<<>>}}

InitNet ==
  /\ \E sz \in Shapes :
       /\ net = mlp_new(0, sz, 1)
       /\ nodes \in Leaves(n_params(sz, 1))
  /\ pc = "ready"
  /\ topo = <<>>
  /\ roots = <<>>
  /\ order = <<>>
  /\ applied = <<>>
  /\ pre = <<>>
  /\ call = NoCall
  /\ train = NoTrain

\* MLP::call on a row of numbers.  A panic unwinds: the values the call
\* made are dropped.
MLPCall ==
  /\ pc = "ready"
  /\ \E xs \in SeqsUpTo(InputVals, MaxIn + 1) :
       LET r == mlp_call(nodes, net, xs)
       IN /\ call' = [args |-> xs, outs |-> r.outs, ret |-> r.ret]
          /\ nodes' = IF r.panicked THEN nodes ELSE r.ns
          /\ pc' = IF r.panicked THEN "panicked" ELSE "returned"
  /\ UNCHANGED <<net, train>>
  /\ EngineIdle

NextNet ==
  \/ MLPCall
  \/ CallBackward

SpecNet == InitNet /\ [][NextNet]_vars

\* ------------------------------------------------- the training loop
\* ypred: n.call(row) for the rows from k on, on st = [ns, ypred].
RECURSIVE predict(_, _, _, _)
predict(st, layers, xs, k) ==
  IF k > Len(xs) THEN st
  ELSE LET r == mlp_call(st.ns, layers, xs[k])
       IN predict([ns |-> r.ns, ypred |-> Append(st.ypred, r.ret[1])],
                  layers, xs, k + 1)

\* (yout - ygt).pow(2.0): the result is the last node.
squared_difference(ns, yout, ygt) ==
  LET n1 == Append(ns, new(ygt))
      n2 == v_sub(n1, yout, Len(n1))
      n3 == Append(n2, new(2))
  IN v_pow(n3, Len(n2), Len(n3))

RECURSIVE squared_differences(_, _, _, _)
squared_differences(st, ypred, ys, k) ==
  IF k > Min(Len(ys), Len(ypred)) THEN st
  ELSE LET n1 == squared_difference(st.ns, ypred[k], ys[k])
       IN squared_differences([ns |-> n1, sq |-> Append(st.sq, Len(n1))],
                              ypred, ys, k + 1)

\* The fold of the loss from term k on: acc is the last node.
RECURSIVE fold_loss(_, _, _)
fold_loss(ns, sq, k) ==
  IF k > Len(sq) THEN ns
  ELSE fold_loss(v_add(ns, Len(ns), sq[k]), sq, k + 1)

\* The forward pass of one iteration: the loss is the last node.
forward(ns, layers, xs, ys) ==
  LET s1 == predict([ns |-> ns, ypred |-> <<>>], layers, xs, 1)
      s2 == squared_differences([ns |-> s1.ns, sq |-> <<>>], s1.ypred, ys, 1)
  IN fold_loss(Append(s2.ns, new(0)), s2.sq, 1)

\* for p in n.parameters() { p.update_grad(0.0) }, from parameter k on.
RECURSIVE zero_grad(_, _, _)
zero_grad(ns, ps, k) ==
  IF k > Len(ps) THEN ns ELSE zero_grad(update_grad(ns, ps[k], 0), ps, k + 1)

\* The parameters' grads left as they are.
zero_grad_none(ns, ps) == ns

zero_grads(ns, ps) == zero_grad(ns, ps, 1)

\* 0.1 * grad, rounded to the nearest integer.
rate(g) == IF g >= 0 THEN (g + 5) \div 10 ELSE -((5 - g) \div 10)

\* for p in n.parameters() { p.update_data(p.data - 0.1 * p.grad) }.
RECURSIVE update_params(_, _, _)
update_params(ns, ps, k) ==
  IF k > Len(ps) THEN ns
  ELSE update_params(update_data(ns, ps[k], ns[ps[k]].data - rate(ns[ps[k]].grad)),
                     ps, k + 1)

Params == parameters(net, 1)

TrainShapes ==
  {<<nin>> \o nouts : nin \in 1 .. MaxFeatures,
                      nouts \in SeqsUpTo({1}, MaxDepth) \ {<<>>}}

DataSets ==
  UNION {[xs : [1 .. m -> [1 .. nin -> InputVals]], ys : [1 .. m -> {-1, 1}],
          nin : {nin}] : nin \in 1 .. MaxFeatures, m \in 1 .. MaxSamples}

InitTrain ==
  /\ \E sz \in TrainShapes :
       /\ net = mlp_new(0, sz, 1)
       /\ nodes \in Leaves(n_params(sz, 1))
       /\ \E d \in DataSets :
            /\ d.nin = sz[1]
            /\ train = [xs |-> d.xs, ys |-> d.ys, iter |-> 0, loss |-> 0,
                        last |-> <<>>]
  /\ pc = "forward"
  /\ topo = <<>>
  /\ roots = <<>>
  /\ order = <<>>
  /\ applied = <<>>
  /\ pre = <<>>
  /\ call = NoCall

\* The forward pass: ypred, the squared differences, the loss.
Forward ==
  /\ pc = "forward"
  /\ train.iter < MaxIters
  /\ nodes' = forward(nodes, net, train.xs, train.ys)
  /\ train' = [train EXCEPT !.loss = Len(nodes')]
  /\ pc' = "zero"
  /\ UNCHANGED <<net, call>>
  /\ EngineIdle

ZeroGrad ==
  /\ pc = "zero"
  /\ nodes' = zero_grads(nodes, Params)
  /\ pc' = "backward_loss"
  /\ UNCHANGED <<net, call, train>>
  /\ EngineIdle

\* loss.clone().backward()
LossBackward ==
  /\ pc = "backward_loss"
  /\ nodes' = backward(nodes, train.loss)
  /\ pc' = "update"
  /\ UNCHANGED <<net, call, train>>
  /\ EngineIdle

ParamData(ns) == [k \in DOMAIN Params |-> ns[Params[k]].data]

ParamGrads(ns) == [k \in DOMAIN Params |-> ns[Params[k]].grad]

\* The update of the parameters; the iteration ends and its graph, which
\* only ypred, squared_differences and loss hold, is dropped.
Update ==
  /\ pc = "update"
  /\ nodes' = SubSeq(update_params(nodes, Params, 1), 1, Len(Params))
  /\ train' = [train EXCEPT !.iter = @ + 1, !.loss = 0,
                            !.last = [data |-> ParamData(nodes),
                                      grad |-> ParamGrads(nodes)]]
  /\ pc' = "forward"
  /\ UNCHANGED <<net, call>>
  /\ EngineIdle

NextTrain ==
  \/ Forward
  \/ ZeroGrad
  \/ LossBackward
  \/ Update

SpecTrain == InitTrain /\ [][NextTrain]_vars

\* ---------------------------------------------------- shared vocabulary
IsLeaf(ns, v) == ns[v].prev = NoPrev

Operands(ns, v) ==
  IF IsLeaf(ns, v) THEN {} ELSE {ns[v].prev[1], ns[v].prev[2]}

\* The transitive operand closure of r, r included.
RECURSIVE Closure(_, _)
Closure(ns, r) ==
  {r} \cup (IF IsLeaf(ns, r) THEN {}
            ELSE Closure(ns, ns[r].prev[1]) \cup Closure(ns, ns[r].prev[2]))

InPass == pc = "backward"

Stepping == pc = "backward" /\ topo # <<>>

PassDone == pc = "backward" /\ topo = <<>>

Cur == Head(topo)

AppliedSet == {applied[k] : k \in DOMAIN applied}

\* ------------------------------------------------------------------ C1
\* What the rule of v owes operand o: the sum over the operand slots o fills.
Contribution(ns, v, o) ==
  LET a == ns[v].prev[1]
      b == ns[v].prev[2]
      g == ns[v].grad
  IN CASE ns[v].op = "Add" ->
            (IF a = o THEN g ELSE 0) + (IF b = o THEN g ELSE 0)
       [] ns[v].op = "Mul" ->
            (IF a = o THEN ns[b].data * g ELSE 0)
              + (IF b = o THEN ns[a].data * g ELSE 0)
       [] ns[v].op = "Tanh" ->
            IF a = o THEN (1 - tanh(ns[a].data) * tanh(ns[a].data)) * g ELSE 0
       [] ns[v].op = "Exp" ->
            IF a = o THEN exp(ns[a].data) * g ELSE 0
       [] ns[v].op = "Pow" ->
            IF a = o
              THEN ns[b].data * powf(ns[a].data, ns[b].data - 1) * g
              ELSE 0
       [] OTHER -> 0

DiffOperands(ns, v) ==
  IF ns[v].op \in {"Add", "Mul"}
    THEN {ns[v].prev[1], ns[v].prev[2]}
    ELSE {ns[v].prev[1]}

\* C1: the rule of every operation kind adds to the operand's grad: right
\* after the rule of a node runs, each differentiable operand's grad is the
\* grad it held just before the rule plus the node's contribution.
C1_RulesAccumulate ==
  [][(Stepping /\ ~IsLeaf(nodes, Cur)) =>
       \A o \in DiffOperands(nodes, Cur) :
         nodes'[o].grad = nodes[o].grad + Contribution(nodes, Cur, o)]_vars

\* ------------------------------------------------------------------ C2
\* The sum, over the operand paths from r to v, of the product of the local
\* factors along the path.
RECURSIVE PathSum(_, _, _)
PathSum(ns, r, v) ==
  IF r = v THEN 1
  ELSE IF IsLeaf(ns, r) THEN 0
  ELSE LET a == ns[r].prev[1]
           b == ns[r].prev[2]
       IN CASE ns[r].op = "Add" -> PathSum(ns, a, v) + PathSum(ns, b, v)
            [] ns[r].op = "Mul" ->
                 ns[b].data * PathSum(ns, a, v) + ns[a].data * PathSum(ns, b, v)
            [] OTHER -> 0

AllZero(ns) == \A k \in DOMAIN ns : ns[k].grad = 0

\* C2: on a graph of add and multiply, called with every grad 0, backward
\* leaves on every node reachable from the root the partial derivative of
\* the root with respect to that node.
C2_GradIsDerivative ==
  (PassDone /\ AllZero(pre)) =>
    \A v \in Closure(nodes, root) : nodes[v].grad = PathSum(nodes, root, v)

\* ------------------------------------------------------------------ C3
\* C3: the order lists every node of the root's operand closure exactly
\* once, nodes told apart by identity, each after both of its operands.
C3_OrderIsClosure ==
  InPass =>
    /\ \A v \in Closure(nodes, root) :
         Cardinality({k \in DOMAIN order : order[k] = v}) = 1
    /\ \A k \in DOMAIN order :
         /\ order[k] \in Closure(nodes, root)
         /\ \A o \in Operands(nodes, order[k]) :
              \E j \in 1 .. (k - 1) : order[j] = o

\* ------------------------------------------------------------------ C4
SameTwice(ns, v) == ~IsLeaf(ns, v) /\ ns[v].prev[1] = ns[v].prev[2]

\* C4: with y = multiply(x, x) or y = add(x, x) and x.grad = 0 before the
\* call, once the rule of y has run x.grad is 2 * x.value, respectively 2,
\* and stays so to the end of the pass.
C4_BothContributions ==
  (InPass /\ applied # <<>> /\ SameTwice(nodes, root)
     /\ pre[nodes[root].prev[1]].grad = 0) =>
    LET x == nodes[root].prev[1]
    IN /\ nodes[root].op = "Mul" => nodes[x].grad = 2 * nodes[x].data
       /\ nodes[root].op = "Add" => nodes[x].grad = 2

C4_Witness ==
  /\ PassDone
  /\ SameTwice(nodes, root)
  /\ nodes[root].op = "Mul"
  /\ pre[nodes[root].prev[1]].grad = 0
  /\ nodes[nodes[root].prev[1]].data # 0
  /\ ~IsLeaf(nodes, nodes[root].prev[1])

\* ------------------------------------------------------------------ C6
\* Two expressions of one shape over the same leaves, built independently:
\* no operation node is shared.
RECURSIVE SameShape(_, _, _)
SameShape(ns, x, y) ==
  IF IsLeaf(ns, x) \/ IsLeaf(ns, y) THEN x = y
  ELSE /\ x # y
       /\ ns[x].op = ns[y].op
       /\ SameShape(ns, ns[x].prev[1], ns[y].prev[1])
       /\ SameShape(ns, ns[x].prev[2], ns[y].prev[2])

ZeroGrads(ns) == [k \in DOMAIN ns |-> [ns[k] EXCEPT !.grad = 0]]

\* The grads backward(r) leaves when it is the only run, from all-zero grads.
Alone(r) == backward(ZeroGrads(nodes), r)

\* C6: backward from the first root and then from the second, no grad
\* zeroed in between, leaves every shared leaf with the sum of the grads the
\* two runs give it when each runs alone.
C6_TwoRunsSum ==
  (PassDone /\ passes = 2 /\ ~IsLeaf(nodes, roots[1])
     /\ SameShape(nodes, roots[1], roots[2])) =>
    \A l \in Closure(nodes, root) :
      IsLeaf(nodes, l) =>
        nodes[l].grad = Alone(roots[1])[l].grad + Alone(roots[2])[l].grad

\* ------------------------------------------------------------------ C7
PowStep == Stepping /\ nodes[Cur].op = "Pow"

\* C7 as stated: the rule of a Power node leaves the grad of every node used
\* as its exponent as it was.
C7_ExponentUntouched ==
  [][PowStep =>
       nodes'[nodes[Cur].prev[2]].grad = nodes[nodes[Cur].prev[2]].grad]_vars

\* C7, amended: the rule of a Power node leaves the grad of its exponent as
\* it was when the exponent is a node other than the base.
C7_DistinctExponentUntouched ==
  [][(PowStep /\ nodes[Cur].prev[2] # nodes[Cur].prev[1]) =>
       nodes'[nodes[Cur].prev[2]].grad = nodes[nodes[Cur].prev[2]].grad]_vars

C7_Witness ==
  /\ InPass
  /\ \E k \in DOMAIN applied :
       /\ nodes[applied[k]].op = "Pow"
       /\ nodes[applied[k]].prev[1] # nodes[applied[k]].prev[2]
       /\ nodes[nodes[applied[k]].prev[1]].grad # 0
       /\ nodes[nodes[applied[k]].prev[1]].data # 0

\* ----------------------------------------------------------------- C10
NoRepeat(s) == \A j, k \in DOMAIN s : j # k => s[j] # s[k]

C10_Order ==
  InPass =>
    /\ applied = <<>> => nodes[root].grad = 1
    /\ NoRepeat(applied \o topo)
    /\ \A k \in DOMAIN applied : \A j \in DOMAIN topo :
         applied[k] \notin Operands(nodes, topo[j])

C10_GradSettled ==
  Stepping => \A v \in AppliedSet \cup {Cur} : nodes'[v].grad = nodes[v].grad

\* C10: in one pass the root's grad is 1 before any rule runs, no rule runs
\* twice, no rule runs before the rule of a consumer that runs in the pass,
\* and the grad a rule has read is not changed by the rest of the pass.
C10_ConsumersFirst == [](C10_Order) /\ [][C10_GradSettled]_vars

C10_Witness ==
  /\ PassDone
  /\ passes = 2
  /\ \E v \in AppliedSet :
       /\ Cardinality({c \in AppliedSet : v \in Operands(nodes, c)}) >= 2
       /\ nodes[v].grad # pre[v].grad
\* ------------------------------------------------------------------ C8
ACall == pc = "ready" /\ pc' # "ready"

\* The nodes a call made.
Made == (Len(nodes) + 1) .. Len(nodes')

\* C8: a Neuron call with a sequence of another length than the weights
\* fails at once, no node made and no grad or value changed; with a sequence
\* of that length it returns, every input multiplied by its weight.
C8_ArityFatal ==
  [][ACall =>
       IF Len(call'.args) # Len(TheNeuron.w)
         THEN pc' = "panicked" /\ nodes' = nodes
         ELSE /\ pc' = "returned"
              /\ \A k \in DOMAIN call'.args :
                   \E m \in Made :
                     /\ nodes'[m].op = "Mul"
                     /\ nodes'[m].prev = <<TheNeuron.w[k], call'.args[k]>>
              /\ Cardinality({m \in Made : nodes'[m].op = "Mul"})
                   = Len(TheNeuron.w)]_vars

C8_Witness ==
  /\ pc = "panicked"
  /\ Len(TheNeuron.w) = 2
  /\ Len(call.args) = 1

\* ------------------------------------------------------------------ C9
\* C9: the MLP call returns the whole output sequence of the last layer,
\* one node per neuron of the last layer.
C9_ReturnsLastLayer ==
  pc = "returned" =>
    /\ call.ret = call.outs
    /\ Len(call.ret) = Len(net[Len(net)])
\* ------------------------------------------------------------------ C5
\* C5: after the backward of a cycle every parameter's grad is the grad the
\* same backward gives on the cycle's graph when no cycle ran before it
\* (every grad 0), and a cycle over the values of the cycle before it gives
\* the grads of the cycle before it.
C5_NoLeakage ==
  pc = "update" =>
    /\ ParamGrads(nodes) = ParamGrads(backward(ZeroGrads(nodes), train.loss))
    /\ (train.last # <<>> /\ train.last.data = ParamData(nodes)) =>
         ParamGrads(nodes) = train.last.grad

C5_Witness ==
  /\ pc = "update"
  /\ train.iter >= 1
  /\ \E k \in DOMAIN Params : train.last.grad[k] # 0
  /\ \E k \in DOMAIN Params : nodes[Params[k]].grad # 0
====
